---- MODULE Spec2Model ----
(***************************************************************************)
(* A model of granola-obsidian-sync: the HTTP request engine               *)
(* (GranolaAPI._make_request), and the sync orchestrator                   *)
(* (GranolaSync.run_sync) with the watermark store, the document fetcher,  *)
(* the group mapping cache and the vault.                                  *)
(*                                                                         *)
(* SpecReq  : one process issuing requests through _make_request, the      *)
(*            remote answering each attempt with any response.             *)
(* Spec     : repeated run_sync passes against a changing remote service,  *)
(*            each request of a pass either returning or raising.          *)
(* SpecProc : passes over a fixed listing, every transcript and note write *)
(*            outcome, every state of the last-sync file.                  *)
(* SpecMap  : passes with a mapping file that goes stale, its backups and  *)
(*            their cleanup.                                               *)
(* SpecFetch: the paging over listings with every kind of date field.      *)
(* SpecParse: parse_transcript_with_participants on every transcript.      *)
(* SpecDry  : the passes of SpecProc with dry_run set.                     *)
(* SpecFetchLive: the paging of SpecFetch with the loop scheduled.         *)
(***************************************************************************)
EXTENDS Integers, Sequences, FiniteSets, TLC

VARIABLES
    config,       \* the loaded configuration (GranolaConfig), fixed after Init
    \* ---- request engine (GranolaAPI._make_request) ----
    reqPc,        \* "idle" | "loop" | "returned" | "raised"
    reqUrl,       \* the URL of the request in progress
    attempt,      \* the loop variable of `for attempt in range(max_retries)`
    reqLog,       \* one entry per HTTP attempt made: response, token sent, sleep
    reqResult,    \* what _make_request gave its caller
    cachedToken,  \* GranolaAPI._access_token (<<>> is None)
    headerToken,  \* the token in the `headers` dict built before the loop
    storeToken,   \* the token currently in the credential store
    tokenLoads,   \* number of _load_credentials calls during this request
    \* ---- the world around a sync pass ----
    now,          \* the wall clock (datetime.now())
    remoteDocs,   \* the documents endpoint's listing, newest first
    watermarkFile,\* the last-sync file: <<>> when absent, <<timestamp>>, or
                  \* another sequence when its content is no timestamp
    mapFile,      \* the mapping file: "absent", "corrupt" or a mapping state
    backupDir,    \* the mapping backups: time in the name -> the file copied
    vault,        \* the notes in the vault: filename -> id of the document
    remoteLists,  \* the document_lists endpoint's listing
    docMapping,   \* ParticipantManager._document_mapping
    \* ---- one run_sync pass (GranolaSync) ----
    pc,           \* where run_sync stands
    lastSync,     \* last_sync read by _fetch_documents_to_sync
    offset,       \* fetch_documents_since: offset
    allDocuments, \* fetch_documents_since: all_documents / recent_documents
    docIndex,     \* _process_documents: position of the next document
    stats,        \* SyncStats
    result,       \* what run_sync returned: <<>> or <<[success, error]>>
    \* ---- one parse_transcript_with_participants call ----
    participants,    \* the participants argument
    transcript_data, \* the transcript_data argument: the items of the response
    itemIndex,       \* position of the next item of `for item in ...`
    transcript_text, \* transcript_text: one entry per "{speaker}: {text}\n\n"
    speaker_stats,   \* speaker_stats: speaker -> word_count, segment_count
    parsed,          \* what the call returned: <<>> until it returns
    \* ---- history of the pass, read by the properties only ----
    hist

reqVars == <<reqPc, reqUrl, attempt, reqLog, reqResult, cachedToken,
             headerToken, storeToken, tokenLoads>>

worldVars == <<now, remoteDocs, watermarkFile, mapFile, backupDir, vault,
              remoteLists>>

passVars == <<pc, lastSync, offset, allDocuments, docIndex, stats, result,
              docMapping>>

parseVars == <<participants, transcript_data, itemIndex, transcript_text,
               speaker_stats, parsed>>

nonReqVars == <<worldVars, passVars, parseVars, hist>>

vars == <<config, reqVars, worldVars, passVars, parseVars, hist>>

----------------------------------------------------------------------------
(* Bounds of the model *)

MaxRetriesBound == 4     \* max_retries ranges over 0..MaxRetriesBound
MaxBaseDelay == 2        \* retry_base_delay ranges over 1..MaxBaseDelay
MaxDelayCap == 4         \* retry_max_delay ranges over 1..MaxDelayCap
MaxToken == 2            \* credential-store tokens are 1..MaxToken

Min(a, b) == IF a <= b THEN a ELSE b

RECURSIVE Pow2(_)
Pow2(n) == IF n = 0 THEN 1 ELSE 2 * Pow2(n - 1)

None == <<>>
Some(x) == <<x>>

----------------------------------------------------------------------------
(* Configuration *)

Endpoints == {"documents", "document_lists", "transcript"}

\* GranolaConfig.get_api_url: base_url followed by the endpoint's path.
get_api_url(endpoint_name) == <<"base_url", endpoint_name>>

\* The settings the model reads, with the values the code falls back to
\* where it has a fallback (config.py 134-149, sync.py, participants.py).
DefaultConfig ==
    [ max_retries                  |-> 1,
      retry_base_delay             |-> 1,
      retry_max_delay              |-> 1,
      validate_api_responses       |-> TRUE,
      batch_size                   |-> 1,
      default_lookback_days        |-> 1,
      continue_on_document_error   |-> TRUE,
      continue_on_transcript_error |-> TRUE,
      continue_on_mapping_error    |-> TRUE,
      auto_refresh_mapping         |-> TRUE,
      mapping_max_age_hours        |-> 24,
      auto_backup_mapping          |-> TRUE,
      backup_retention_days        |-> 30,
      update_existing_files        |-> TRUE,
      dry_run                      |-> FALSE ]

should_continue_on_error_Always(error_type) == TRUE

should_continue_on_error_Never(error_type) == FALSE

\* GranolaConfig.should_continue_on_error
should_continue_on_error(error_type) ==
    CASE error_type = "document"   -> config.continue_on_document_error
      [] error_type = "transcript" -> config.continue_on_transcript_error
      [] error_type = "mapping"    -> config.continue_on_mapping_error

RequestConfigs ==
    { [ DefaultConfig EXCEPT !.max_retries = m, !.retry_base_delay = b,
                             !.retry_max_delay = c,
                             !.validate_api_responses = v ] :
        m \in 0..MaxRetriesBound, b \in 1..MaxBaseDelay,
        c \in 1..MaxDelayCap, v \in BOOLEAN }

----------------------------------------------------------------------------
(* HTTP request engine: GranolaAPI._make_request *)

\* What the remote (or the transport) answers to one requests.post call.
\* exc: requests.post raised a RequestException (timeout, connection error).
\* body: what response.json() gives for a 200: a dict, a list, another JSON
\* value ("scalar"), or "undecodable" when response.json() raises
\* requests.exceptions.JSONDecodeError, itself a RequestException.
Responses ==
    { [exc |-> FALSE, status |-> 200, body |-> b] :
          b \in {"dict", "list", "scalar", "undecodable"} }
    \cup { [exc |-> FALSE, status |-> s, body |-> "none"] : s \in {401, 500} }
    \cup { [exc |-> TRUE, status |-> 0, body |-> "none"] }

\* The request fails inside the try block with a RequestException.
RaisesRequestException(r) ==
    r.exc \/ (r.status = 200 /\ r.body = "undecodable")

validate_api_response_Lax(body) == TRUE

validate_api_response_DictOnly(body) ==
    IF ~config.validate_api_responses THEN TRUE ELSE body = "dict"

\* GranolaAPI._validate_api_response
validate_api_response(body) ==
    IF ~config.validate_api_responses THEN TRUE
    ELSE body \in {"dict", "list"}

backoff_wait_Linear(att) ==
    Min(config.retry_base_delay * (att + 1), config.retry_max_delay)

\* The exponential backoff of lines 93-96.
backoff_wait(att) ==
    Min(config.retry_base_delay * Pow2(att), config.retry_max_delay)

\* The sleep of the `except RequestException` branch (line 102).
exception_wait(att) == config.retry_base_delay

retry_budget_OneMore == config.max_retries + 1

\* range(self.config.api.max_retries): the number of loop iterations.
retry_budget == config.max_retries

\* `if attempt < max_retries - 1` guarding both sleeps.
sleeps_after(att) == att < config.max_retries - 1

ErrExhausted(url) ==
    [ kind |-> "exhausted", url |-> Some(url),
      attempts |-> Some(config.max_retries) ]
ErrAuth == [ kind |-> "auth", url |-> None, attempts |-> None ]
ErrCredentials == [ kind |-> "credentials", url |-> None, attempts |-> None ]

NoResult == [ kind |-> "none", data |-> None, error |-> None ]
Returned(data) == [ kind |-> "return", data |-> Some(data), error |-> None ]
Raised(err) == [ kind |-> "raise", data |-> None, error |-> Some(err) ]

\* The parsed body of the response to attempt number att of this request.
BodyOf(att, r) == [ kind |-> r.body, of_attempt |-> att ]

LogEntry(r, wait) ==
    [ resp |-> r, token |-> headerToken, wait |-> wait ]

\* The loop is left: either another iteration follows or line 104 raises.
NextIteration(r, wait) ==
    /\ reqLog' = Append(reqLog, LogEntry(r, wait))
    /\ attempt' = attempt + 1
    /\ IF attempt + 1 < retry_budget
         THEN /\ reqPc' = "loop"
              /\ reqResult' = reqResult
         ELSE /\ reqPc' = "raised"
              /\ reqResult' = Raised(ErrExhausted(reqUrl))

\* Lines 57-62: the headers are built once, from the access_token property,
\* which loads the credentials when nothing is cached.
make_request_start(endpoint, credsOk) ==
    /\ reqPc = "idle"
    /\ reqUrl' = get_api_url(endpoint)
    /\ reqLog' = <<>>
    /\ attempt' = 0
    /\ UNCHANGED <<config, storeToken>>
    /\ IF cachedToken # None
         THEN /\ headerToken' = cachedToken[1]
              /\ tokenLoads' = 0
              /\ UNCHANGED cachedToken
              /\ IF retry_budget > 0
                   THEN reqPc' = "loop" /\ reqResult' = NoResult
                   ELSE /\ reqPc' = "raised"
                        /\ reqResult' =
                               Raised(ErrExhausted(get_api_url(endpoint)))
         ELSE /\ tokenLoads' = 1
              /\ IF credsOk
                   THEN /\ cachedToken' = Some(storeToken)
                        /\ headerToken' = storeToken
                        /\ IF retry_budget > 0
                             THEN reqPc' = "loop" /\ reqResult' = NoResult
                             ELSE /\ reqPc' = "raised"
                                  /\ reqResult' =
                                       Raised(ErrExhausted(get_api_url(endpoint)))
                   ELSE /\ UNCHANGED <<cachedToken, headerToken>>
                        /\ reqPc' = "raised"
                        /\ reqResult' = Raised(ErrCredentials)

\* One iteration of the retry loop, lines 64-102, and the raise of line 104
\* when it was the last.
make_request_attempt(r) ==
    /\ reqPc = "loop"
    /\ attempt < retry_budget
    /\ UNCHANGED <<config, reqUrl, headerToken, storeToken, tokenLoads>>
    /\ IF RaisesRequestException(r)
         THEN \* lines 99-102
              /\ NextIteration(r, IF sleeps_after(attempt)
                                    THEN Some(exception_wait(attempt))
                                    ELSE None)
              /\ UNCHANGED cachedToken
         ELSE IF r.status = 200 /\ validate_api_response(r.body)
         THEN \* lines 73-76
              /\ reqLog' = Append(reqLog, LogEntry(r, None))
              /\ reqPc' = "returned"
              /\ reqResult' = Returned(BodyOf(attempt, r))
              /\ UNCHANGED <<attempt, cachedToken>>
         ELSE IF r.status = 401
         THEN \* lines 80-86
              IF attempt = 0
                THEN /\ cachedToken' = None
                     /\ NextIteration(r, None)
                ELSE /\ reqLog' = Append(reqLog, LogEntry(r, None))
                     /\ reqPc' = "raised"
                     /\ reqResult' = Raised(ErrAuth)
                     /\ UNCHANGED <<attempt, cachedToken>>
         ELSE \* lines 77-78 and 88-97
              /\ NextIteration(r, IF sleeps_after(attempt)
                                    THEN Some(backoff_wait(attempt))
                                    ELSE None)
              /\ UNCHANGED cachedToken

\* _make_request has given its result; the caller goes on.
make_request_done ==
    /\ reqPc \in {"returned", "raised"}
    /\ reqPc' = "idle"
    /\ attempt' = 0
    /\ reqLog' = <<>>
    /\ reqResult' = NoResult
    /\ tokenLoads' = 0
    /\ UNCHANGED <<config, reqUrl, cachedToken, headerToken, storeToken>>

\* The credential store is rewritten by the desktop application.
RotateToken ==
    /\ storeToken < MaxToken
    /\ storeToken' = storeToken + 1
    /\ UNCHANGED <<config, reqPc, reqUrl, attempt, reqLog, reqResult,
                   cachedToken, headerToken, tokenLoads>>

----------------------------------------------------------------------------
(* The world around a sync pass: clock, remote service, files *)

MaxClock == 1            \* the clock runs over 0..MaxClock
MaxDocs == 2             \* the remote service holds at most MaxDocs documents
MaxBatchSize == 2        \* batch_size ranges over 1..MaxBatchSize

Titles == {"standup"}

\* A date field of a remote document as the API sends it: an ISO string
\* without offset ("naive"), one with offset or Z ("aware"), a string that
\* does not parse ("bad"), or no field at all ("missing").
DateString(kind, t) == [ kind |-> kind, t |-> t ]
MissingDate == DateString("missing", 0)

NewDocument(id, title) ==
    [ id |-> id, title |-> title,
      created_at |-> DateString("naive", now), updated_at |-> MissingDate ]

\* The remote lists of the service: document 1 is in both lists.
TheLists ==
    << [ id |-> "L1", name |-> "Weekly", documents |-> <<1, 2>> ],
       [ id |-> "L2", name |-> "Board", documents |-> <<1>> ] >>

\* The same lists after document 1 has left the list "Board".
MovedLists ==
    << [ id |-> "L1", name |-> "Weekly", documents |-> <<1, 2>> ],
       [ id |-> "L2", name |-> "Board", documents |-> <<>> ] >>

NoMapFile == [ state |-> "absent", mtime |-> 0, content |-> <<>> ]

\* The pass reads the clock and the remote service when it starts, while it
\* pages through the documents and when it writes the watermark: the steps
\* of the world are taken at these points (between two other steps of a pass
\* they change nothing the pass reads).
WorldMoves == pc \in {"idle", "fetching", "write_empty", "write"}

\* Time passes.
Tick ==
    /\ WorldMoves
    /\ now < MaxClock
    /\ now' = now + 1
    /\ UNCHANGED <<config, reqVars, parseVars,
                   remoteDocs, watermarkFile, mapFile,
                   backupDir, vault, remoteLists, passVars, hist>>

\* A meeting is recorded: the service lists the new document first.
RemoteCreate(title) ==
    /\ WorldMoves
    /\ Len(remoteDocs) < MaxDocs
    /\ remoteDocs' = <<NewDocument(Len(remoteDocs) + 1, title)>> \o remoteDocs
    /\ UNCHANGED <<config, reqVars, parseVars,
                   now, watermarkFile, mapFile, backupDir,
                   vault, remoteLists, passVars, hist>>

\* A document is edited: its updated_at moves, its place in the listing stays.
RemoteUpdate(i) ==
    /\ WorldMoves
    /\ i \in 1..Len(remoteDocs)
    /\ remoteDocs[i].created_at.t < now
    /\ remoteDocs[i].updated_at # DateString("naive", now)
    /\ remoteDocs' =
         [remoteDocs EXCEPT ![i].updated_at = DateString("naive", now)]
    /\ UNCHANGED <<config, reqVars, parseVars,
                   now, watermarkFile, mapFile, backupDir,
                   vault, remoteLists, passVars, hist>>

\* A document is moved from one list to another, between two passes (the
\* lists are read once in a pass).
RemoteRegroup ==
    /\ pc = "idle"
    /\ remoteLists' = IF remoteLists = TheLists THEN MovedLists ELSE TheLists
    /\ UNCHANGED <<config, reqVars, parseVars,
                   now, remoteDocs, watermarkFile, mapFile,
                   backupDir, vault, passVars, hist>>

----------------------------------------------------------------------------
(* Watermark store: GranolaAPI.get_last_sync_time / update_last_sync_time *)

\* A last-sync file whose content datetime.fromisoformat does not take (an
\* empty file, any other text).
Unparsable == <<0, 0>>

\* datetime.fromisoformat of the content of the file: the timestamp, or None
\* for the ValueError.
fromisoformat(content) ==
    IF Len(content) = 1 THEN Some(content[1]) ELSE None

get_last_sync_time_NoLookback ==
    IF watermarkFile # None /\ fromisoformat(watermarkFile) # None
      THEN fromisoformat(watermarkFile)[1]
      ELSE now

\* GranolaAPI.get_last_sync_time
get_last_sync_time ==
    IF watermarkFile # None /\ fromisoformat(watermarkFile) # None
      THEN fromisoformat(watermarkFile)[1]
      ELSE now - config.default_lookback_days

update_last_sync_time_Lookback == Some(now - config.default_lookback_days)

\* GranolaAPI.update_last_sync_time: the new content of the watermark file.
\* The write itself is taken to succeed.
update_last_sync_time == Some(now)

----------------------------------------------------------------------------
(* Document fetcher: GranolaAPI.fetch_documents_since *)

\* GranolaAPI._get_document_date: None for a missing or unparsable field.
get_document_date(doc, field) ==
    IF doc[field].kind \in {"missing", "bad"}
      THEN None
      ELSE Some([ aware |-> doc[field].kind = "aware", t |-> doc[field].t ])

\* Comparing dt with the naive since_date raises TypeError.
CompareRaises(dt) == dt = None \/ dt[1].aware

\* GranolaAPI._is_document_recent; the bare except turns a TypeError to True.
is_document_recent(doc, since_date) ==
    LET created_dt == get_document_date(doc, "created_at")
        upd        == get_document_date(doc, "updated_at")
        updated_dt == IF upd # None THEN upd ELSE created_dt
    IN  IF CompareRaises(created_dt) THEN TRUE
        ELSE IF created_dt[1].t >= since_date THEN TRUE
        ELSE IF CompareRaises(updated_dt) THEN TRUE
        ELSE updated_dt[1].t >= since_date

\* The `for doc in documents` loop of lines 136-142: recent_documents.
RECURSIVE filter_page(_, _)
filter_page(documents, since_date) ==
    IF documents = <<>> THEN <<>>
    ELSE LET doc == Head(documents)
         IN  IF is_document_recent(doc, since_date)
               THEN <<doc>> \o filter_page(Tail(documents), since_date)
             ELSE IF get_document_date(doc, "created_at")[1].t < since_date
               THEN <<>>
             ELSE filter_page(Tail(documents), since_date)

\* The copy of a listed document kept in all_documents: processing reads its
\* id, title and created_at only, the update stamp is left out of the copy.
RECURSIVE kept_documents(_)
kept_documents(documents) ==
    IF documents = <<>> THEN <<>>
    ELSE <<[ Head(documents) EXCEPT !.updated_at = MissingDate ]>>
         \o kept_documents(Tail(documents))

\* What the documents endpoint returns for {limit, offset}.
RemotePage(limit, off) ==
    SubSeq(remoteDocs, off + 1, Min(off + limit, Len(remoteDocs)))

----------------------------------------------------------------------------
(* Group mapping cache: ParticipantManager.load_document_mapping *)

should_refresh_mapping_NoAge ==
    config.auto_refresh_mapping /\ mapFile.state = "absent"

\* ParticipantManager._should_refresh_mapping
should_refresh_mapping ==
    IF ~config.auto_refresh_mapping THEN FALSE
    ELSE IF mapFile.state = "absent" THEN TRUE
    ELSE now - mapFile.mtime > config.mapping_max_age_hours

\* ParticipantManager.get_document_list_info: name and id of the list, two
\* empty strings for a document the mapping does not hold.
list_info(mapping, document_id) ==
    IF document_id \notin DOMAIN mapping THEN <<"", "">>
    ELSE << mapping[document_id].document_list_name,
            mapping[document_id].document_list_id >>

get_document_list_info(document_id) == list_info(docMapping, document_id)

MapPut(m, k, v) == [ x \in DOMAIN m \cup {k} |-> IF x = k THEN v ELSE m[x] ]

RECURSIVE AddListDocuments_FirstWins(_, _, _)
AddListDocuments_FirstWins(docs, doc_list, mapping) ==
    IF docs = <<>> THEN mapping
    ELSE AddListDocuments_FirstWins(Tail(docs), doc_list,
            IF Head(docs) \in DOMAIN mapping THEN mapping
            ELSE MapPut(mapping, Head(docs),
                        [ document_list_id |-> doc_list.id,
                          document_list_name |-> doc_list.name ]))

RECURSIVE AddListDocuments(_, _, _)
AddListDocuments(docs, doc_list, mapping) ==
    IF docs = <<>> THEN mapping
    ELSE AddListDocuments(Tail(docs), doc_list,
            MapPut(mapping, Head(docs),
                   [ document_list_id |-> doc_list.id,
                     document_list_name |-> doc_list.name ]))

\* The loops of ParticipantManager._create_document_mapping, lines 73-89.
RECURSIVE flatten_document_lists(_, _)
flatten_document_lists(document_lists, mapping) ==
    IF document_lists = <<>> THEN mapping
    ELSE flatten_document_lists(Tail(document_lists),
            AddListDocuments(Head(document_lists).documents,
                             Head(document_lists), mapping))

----------------------------------------------------------------------------
(* Sync orchestrator: GranolaSync.run_sync *)

NewStats ==
    [ documents_processed |-> 0, documents_created |-> 0,
      documents_updated |-> 0, documents_failed |-> 0,
      transcripts_fetched |-> 0, transcripts_failed |-> 0 ]

NewHist ==
    [ wmAtStart |-> None,      \* the watermark file when the pass began
      due |-> {},              \* ids of the remote documents dated >= last_sync
      handed |-> {},           \* ids handed to _process_single_document
      pageRequests |-> 0,      \* requests to the documents endpoint
      listedAtFetch |-> <<>>,  \* the service's listing when the fetch ended
      mapAtStart |-> NoMapFile, \* the mapping file when the pass began
      rosterIn |-> "none",     \* how the roster file read went
      listsIn |-> "none",      \* how the document_lists request went, if made
      backupIn |-> "none",     \* how the mapping backup copy went, if tried
      saveIn |-> "none",       \* how the mapping file write went, if tried
      cleanupIn |-> "none",    \* how the backup cleanup went, if run
      failedIn |-> "none" ]    \* the state the pass failed in

\* A document's creation or update timestamp is at or after w.
IsDue(doc, w) ==
    \/ doc.created_at.kind \in {"naive", "aware"} /\ doc.created_at.t >= w
    \/ doc.updated_at.kind \in {"naive", "aware"} /\ doc.updated_at.t >= w

DueIds(w) ==
    { remoteDocs[i].id : i \in { j \in 1..Len(remoteDocs) : IsDue(remoteDocs[j], w) } }

success_rate_Unguarded(s) ==
    IF s.documents_processed = 0 THEN None
    ELSE Some([ num |-> (s.documents_processed - s.documents_failed) * 100,
                den |-> s.documents_processed ])

\* SyncStats.success_rate, the percentage as a fraction; None stands for a
\* ZeroDivisionError.
success_rate(s) ==
    IF s.documents_processed = 0 THEN Some([ num |-> 0, den |-> 1 ])
    ELSE Some([ num |-> (s.documents_processed - s.documents_failed) * 100,
                den |-> s.documents_processed ])

\* SyncStats.summary raises what success_rate raises.
summary_raises(s) == success_rate(s) = None

\* GranolaSync._create_sync_result: the error key is set for a non-empty
\* message only.
create_sync_result(success, error) ==
    Some([ success |-> success,
           error |-> IF error = Some("") THEN None ELSE error ])

\* run_sync returns the result; an exception of _create_sync_result leaves
\* run_sync, from the except branch too.
return_result(success, error) ==
    IF summary_raises(stats')
      THEN pc' = "raised" /\ result' = None
      ELSE pc' = "done" /\ result' = create_sync_result(success, error)

fail_pass_Advancing(error) ==
    /\ pc' = "done"
    /\ result' = create_sync_result(FALSE, Some(error))
    /\ watermarkFile' = Some(now)

fail_pass_Reset(error) ==
    /\ pc' = "done"
    /\ result' = create_sync_result(FALSE, Some(error))
    /\ watermarkFile' = None

\* The `except Exception` of run_sync, lines 125-131.
fail_pass(error) ==
    /\ return_result(FALSE, Some(error))
    /\ watermarkFile' = watermarkFile

\* run_granola_sync: a new GranolaSync is built and run_sync is entered.
start_pass ==
    /\ pc = "idle"
    /\ pc' = "init"
    /\ stats' = NewStats
    /\ result' = None
    /\ docMapping' = <<>>
    /\ allDocuments' = <<>>
    /\ offset' = 0
    /\ docIndex' = 1
    /\ lastSync' = 0
    /\ hist' = [ NewHist EXCEPT !.wmAtStart = watermarkFile,
                                !.mapAtStart = mapFile ]
    /\ UNCHANGED <<config, reqVars, parseVars, worldVars>>

fetch_document_lists_Swallowing(outcome) ==
    IF outcome = "ok" THEN [ raised |-> FALSE, lists |-> remoteLists ]
    ELSE [ raised |-> FALSE, lists |-> <<>> ]

\* GranolaAPI.fetch_document_lists, the request returning or raising.
fetch_document_lists(outcome) ==
    IF outcome = "ok" THEN [ raised |-> FALSE, lists |-> remoteLists ]
    ELSE IF should_continue_on_error("mapping")
      THEN [ raised |-> FALSE, lists |-> <<>> ]
      ELSE [ raised |-> TRUE, lists |-> <<>> ]

\* GranolaAPI.load_participant_data raises: only an error that is none of
\* FileNotFoundError, JSONDecodeError, KeyError (a PermissionError, a
\* TypeError on content of the wrong shape) leaves it.
load_participant_data_raises(outcome) == outcome = "oserror"

\* load_document_mapping rebuilds: the refresh test, or a file that does not
\* load (lines 31-42).
mapping_is_rebuilt ==
    should_refresh_mapping \/ mapFile.state \in {"absent", "corrupt"}

backup_mapping_Skipped(backup) == backupDir

\* ParticipantManager._save_mapping_with_backup, lines 101-111: with
\* auto_backup_mapping and a mapping file in place, the file is copied (its
\* content and its modification time, shutil.copy2) under a name holding the
\* current time; a copy that fails ("fail") is logged and nothing else.
backup_mapping(backup) ==
    IF config.auto_backup_mapping /\ mapFile.state # "absent" /\ backup = "ok"
      THEN MapPut(backupDir, now, mapFile)
      ELSE backupDir

\* GranolaSync._initialize_sync and, when it returns, the read of the
\* watermark that opens _fetch_documents_to_sync (sync.py 101, 152).
\*   roster: the roster file read "ok", "missing" (absent, not JSON, a key
\*           missing) or failing with another error ("oserror");
\*   lists:  the document_lists request "ok" or "fail" (GranolaAPIError);
\*   backup: the copy of the mapping file to the backups "ok" or "fail";
\*   save:   the mapping file write "ok", failing at open ("oserror", the
\*           file as it was) or after it ("truncated", the file cut short).
initialize_sync(roster, lists, backup, save) ==
    /\ pc = "init"
    /\ UNCHANGED <<config, reqVars, parseVars,
                   now, remoteDocs, vault, remoteLists,
                   stats, docIndex>>
    /\ LET fetched == fetch_document_lists(lists)
           rebuilt == flatten_document_lists(fetched.lists, <<>>)
           copied == config.auto_backup_mapping /\ mapFile.state # "absent"
           h1 == [ hist EXCEPT !.rosterIn = roster ]
           h2 == [ h1 EXCEPT !.listsIn = lists ]
           h3 == [ h2 EXCEPT !.backupIn = IF copied THEN backup ELSE "none",
                             !.saveIn = save ]
           proceed(h, mapping) ==
              /\ docMapping' = mapping
              /\ lastSync' = get_last_sync_time
              /\ offset' = 0
              /\ allDocuments' = <<>>
              /\ pc' = "fetching"
              /\ hist' = [ h EXCEPT !.due = DueIds(get_last_sync_time) ]
              /\ UNCHANGED <<result, watermarkFile>>
           abort(h, error) ==
              /\ fail_pass(error)
              /\ hist' = [ h EXCEPT !.failedIn = "init" ]
              /\ UNCHANGED <<docMapping, lastSync, offset, allDocuments>>
       IN  IF load_participant_data_raises(roster)
             THEN abort(h1, "OSError") /\ UNCHANGED <<mapFile, backupDir>>
           ELSE IF ~mapping_is_rebuilt
             THEN /\ proceed(h1, mapFile.content)
                  /\ UNCHANGED <<mapFile, backupDir>>
           ELSE IF fetched.raised
             THEN /\ abort(h2, "GranolaAPIError")
                  /\ UNCHANGED <<mapFile, backupDir>>
           ELSE /\ backupDir' = backup_mapping(backup)
                /\ IF save = "oserror"
                     THEN abort(h3, "OSError") /\ UNCHANGED mapFile
                   ELSE IF save = "truncated"
                     THEN /\ abort(h3, "OSError")
                          /\ mapFile' = [ state |-> "corrupt", mtime |-> now,
                                          content |-> <<>> ]
                   ELSE /\ mapFile' = [ state |-> "valid", mtime |-> now,
                                        content |-> rebuilt ]
                        /\ proceed(h3, rebuilt)

fetch_returns_Unprocessed(documents) ==
    /\ allDocuments' = documents
    /\ docIndex' = 1
    /\ pc' = IF documents = <<>> THEN "write_empty" ELSE "write"
    /\ UNCHANGED <<result, watermarkFile>>

\* The end of fetch_documents_since and of _fetch_documents_to_sync, and the
\* `if not recent_documents` of run_sync (line 106).
fetch_returns(documents) ==
    /\ allDocuments' = documents
    /\ docIndex' = 1
    /\ pc' = IF documents = <<>> THEN "write_empty" ELSE "processing"
    /\ UNCHANGED <<result, watermarkFile>>

next_offset_SamePage(off) == off

\* offset += self.config.api.batch_size (api.py 145)
next_offset(off) == off + config.batch_size

\* One iteration of the paging loop of fetch_documents_since (lines 122-158),
\* the request "ok" or "fail" (GranolaAPIError after the retries).
fetch_page(outcome) ==
    /\ pc = "fetching"
    /\ UNCHANGED <<config, reqVars, parseVars,
                   now, remoteDocs, mapFile, backupDir,
                   vault, remoteLists, lastSync, stats, docMapping>>
    /\ LET documents == RemotePage(config.batch_size, offset)
           recent_documents == filter_page(documents, lastSync)
           h == [ hist EXCEPT !.pageRequests = @ + 1 ]
           ended == [ h EXCEPT !.listedAtFetch = remoteDocs ]
       IN  IF outcome = "fail"
             THEN IF should_continue_on_error("document")
                    THEN /\ fetch_returns(allDocuments)
                         /\ hist' = ended
                         /\ UNCHANGED offset
                    ELSE /\ fail_pass("GranolaAPIError")
                         /\ hist' = [ h EXCEPT !.failedIn = "fetching" ]
                         /\ UNCHANGED <<offset, allDocuments, docIndex>>
           ELSE IF documents = <<>>
             THEN /\ fetch_returns(allDocuments)
                  /\ hist' = ended
                  /\ UNCHANGED offset
           ELSE /\ offset' = next_offset(offset)
                /\ IF recent_documents = <<>>
                     THEN fetch_returns(allDocuments) /\ hist' = ended
                     ELSE /\ hist' = h
                          /\ allDocuments' =
                               allDocuments \o kept_documents(recent_documents)
                          /\ UNCHANGED <<pc, docIndex, result, watermarkFile>>

\* GranolaSync._extract_date of created_at.
extract_date(doc) ==
    IF doc.created_at.kind = "missing" THEN None ELSE Some(doc.created_at.t)

\* ObsidianIntegration.create_safe_filename(title, date)
create_safe_filename(title, date) == [ title |-> title, date |-> date ]

build_note_content_NoPlaceholder(transcript) == "transcript"

\* ObsidianIntegration._build_note_content: the transcript text, or the
\* notes header with the no-transcript message when there is none.
build_note_content(transcript) ==
    IF transcript = "ok" THEN "transcript" ELSE "placeholder"

create_note_from_document_Stamped(document, transcript) ==
    [ id |-> document.id, body |-> build_note_content(transcript),
      document_list |-> get_document_list_info(document.id),
      synced_at |-> now ]

\* ObsidianIntegration.create_note_from_document: what the note file holds,
\* the document's list in the frontmatter and under the title.
create_note_from_document(document, transcript) ==
    [ id |-> document.id, body |-> build_note_content(transcript),
      document_list |-> get_document_list_info(document.id) ]

Bump(s, field) == [ s EXCEPT ![field] = @ + 1 ]

\* One iteration of the loop of _process_documents (sync.py 170-183) with
\* _process_single_document:
\*   transcript: the transcript request gives a readable transcript ("ok"),
\*               nothing readable ("empty"), or fails ("error");
\*   save:       writing the note file works ("ok") or fails ("oserror").
process_document(transcript, save) ==
    /\ pc = "processing"
    /\ docIndex <= Len(allDocuments)
    /\ UNCHANGED <<config, reqVars, parseVars,
                   now, remoteDocs, mapFile, backupDir,
                   remoteLists, lastSync, offset, allDocuments, docMapping>>
    /\ LET document == allDocuments[docIndex]
           filename == create_safe_filename(document.title,
                                            extract_date(document))
           is_update == filename \in DOMAIN vault
           transcript_raises ==
               transcript = "error" /\ ~should_continue_on_error("transcript")
           s1 == IF transcript = "ok"
                   THEN Bump(stats, "transcripts_fetched")
                   ELSE Bump(stats, "transcripts_failed")
           saved == /\ ~(is_update /\ ~config.update_existing_files)
                    /\ (config.dry_run \/ save = "ok")
           written == saved /\ ~config.dry_run
           s2 == IF saved
                   THEN Bump(Bump(s1, IF is_update THEN "documents_updated"
                                                   ELSE "documents_created"),
                             "documents_processed")
                   ELSE Bump(Bump(s1, "documents_failed"), "documents_failed")
           raised == transcript_raises \/ ~saved
           h == [ hist EXCEPT !.handed = @ \cup {document.id} ]
       IN  /\ stats' = IF transcript_raises
                         THEN Bump(s1, "documents_failed") ELSE s2
           /\ vault' = IF ~transcript_raises /\ written
                         THEN MapPut(vault, filename,
                                     create_note_from_document(document,
                                                               transcript))
                         ELSE vault
           /\ IF raised /\ ~should_continue_on_error("document")
                THEN /\ fail_pass("Exception")
                     /\ hist' = [ h EXCEPT !.failedIn = "processing" ]
                     /\ UNCHANGED docIndex
                ELSE /\ docIndex' = docIndex + 1
                     /\ pc' = IF docIndex = Len(allDocuments)
                                THEN "write" ELSE "processing"
                     /\ hist' = h
                     /\ UNCHANGED <<result, watermarkFile>>

\* The backups cleanup_old_backups removes: those last modified before
\* now - backup_retention_days (participants.py 229-234).
old_backups ==
    { k \in DOMAIN backupDir :
        backupDir[k].mtime < now - config.backup_retention_days }

\* ParticipantManager.cleanup_old_backups inside GranolaSync._cleanup: nothing
\* without auto_backup_mapping; else the old backups are unlinked one by one,
\* and an error on the way ("fail") is logged, the backups not reached left.
cleanup_old_backups(cleanup) ==
    LET left(removed) == [ k \in DOMAIN backupDir \ removed |-> backupDir[k] ]
    IN  IF ~config.auto_backup_mapping THEN UNCHANGED backupDir
        ELSE IF cleanup = "ok" THEN backupDir' = left(old_backups)
        ELSE \E removed \in SUBSET old_backups :
                /\ removed # old_backups \/ old_backups = {}
                /\ backupDir' = left(removed)

\* run_sync lines 108-109 and 115-123: the watermark is written and the
\* success result returned; after documents were processed (line 118, not
\* on the return of line 109) _cleanup runs in between, "ok" or "fail".
finalize_pass(cleanup) ==
    /\ pc \in {"write_empty", "write"}
    /\ UNCHANGED <<config, reqVars, parseVars, now, remoteDocs, mapFile, vault,
                   remoteLists, lastSync, offset, allDocuments, docIndex,
                   stats, docMapping>>
    /\ watermarkFile' = update_last_sync_time
    /\ IF pc = "write"
         THEN /\ cleanup_old_backups(cleanup)
              /\ hist' = [ hist EXCEPT !.cleanupIn =
                             IF config.auto_backup_mapping THEN cleanup
                                                           ELSE "ok" ]
         ELSE UNCHANGED <<backupDir, hist>>
    /\ return_result(TRUE, None)

\* The process ends with the result of run_sync.
end_pass ==
    /\ pc = "done"
    /\ pc' = "idle"
    /\ result' = None
    /\ stats' = NewStats
    /\ allDocuments' = <<>>
    /\ docMapping' = <<>>
    /\ offset' = 0
    /\ docIndex' = 1
    /\ lastSync' = 0
    /\ hist' = NewHist
    /\ UNCHANGED <<config, reqVars, parseVars, worldVars>>

\* No pass is running.
PassIdle ==
    /\ pc = "idle"
    /\ lastSync = 0
    /\ offset = 0
    /\ allDocuments = <<>>
    /\ docIndex = 1
    /\ stats = NewStats
    /\ result = None
    /\ docMapping = <<>>
    /\ hist = NewHist

\* A first installation: no meeting recorded yet, no watermark file.
WorldFresh ==
    /\ now = 0
    /\ remoteDocs = <<>>
    /\ watermarkFile = None
    /\ vault = <<>>
    /\ remoteLists = TheLists

\* The mapping file as an earlier pass rebuilt it.
MapFileBuilt ==
    [ state |-> "valid", mtime |-> 0,
      content |-> flatten_document_lists(TheLists, <<>>) ]

SyncIdle ==
    /\ WorldFresh
    /\ mapFile = NoMapFile
    /\ backupDir = <<>>
    /\ PassIdle

----------------------------------------------------------------------------
(* Speaker attribution: ParticipantManager.parse_transcript_with_participants *)

MaxTurns == 2            \* a transcript has 0..MaxTurns items
MaxRoster == 3           \* a participants list has 0..MaxRoster names

\* The names a participants list is made of, each at most once (the names of
\* get_participants_for_document are non-empty and distinct).
Names == {"Me", "Alice", "Bob"}

\* The participants lists.
Rosters ==
    { r \in UNION { [1..n -> Names] : n \in 0..MaxRoster } :
        \A i, j \in 1..Len(r) : i # j => r[i] # r[j] }

\* The texts of an item, character by character: empty, blank, one word,
\* another word, two words between blanks.
Texts ==
    { <<>>, <<" ">>, <<"h", "i">>, <<"h", "e", "l", "l", "o">>,
      <<" ", "h", "i", " ", "y", "o", " ">> }

\* The `source` of an item; "unknown" is what item.get('source', 'unknown')
\* gives an item without one.
Sources == {"microphone", "system", "alice", "unknown"}

\* An item of the transcript response: a dict with a source and, unless the
\* key is missing (None), a text.
Items == [ source : Sources, text : { Some(t) : t \in Texts } \cup {None} ]

\* The transcripts.
Transcripts == UNION { [1..n -> Items] : n \in 0..MaxTurns }

\* str.strip(): the text without its leading and trailing blanks.
RECURSIVE strip(_)
strip(text) ==
    IF text = <<>> THEN text
    ELSE IF Head(text) = " " THEN strip(Tail(text))
    ELSE IF text[Len(text)] = " " THEN strip(SubSeq(text, 1, Len(text) - 1))
    ELSE text

\* len(text.split()): the number of runs of non-blank characters.
word_count(text) ==
    Cardinality({ i \in 1..Len(text) :
                    text[i] # " " /\ (i = 1 \/ text[i - 1] = " ") })

\* str.title() of a source.
title(source) ==
    CASE source = "alice" -> "Alice"
      [] source = "unknown" -> "Unknown"
      [] source = "microphone" -> "Microphone"
      [] source = "system" -> "System"

detect_speaker_AlwaysMe(source, participant_names) ==
    IF source = "microphone" THEN "Me"
    ELSE IF source = "system"
      THEN LET other_participants ==
                  IF Len(participant_names) > 1
                    THEN Tail(participant_names) ELSE <<"Them">>
           IN  IF Len(other_participants) = 1
                 THEN other_participants[1] ELSE "Them"
    ELSE IF \E i \in 1..Len(participant_names) :
               participant_names[i] = title(source)
      THEN title(source)
    ELSE "Unknown"

detect_speaker_Generic(source, participant_names) ==
    IF source = "microphone"
      THEN IF participant_names # <<>> THEN participant_names[1] ELSE "Me"
    ELSE IF source = "system" THEN "Them"
    ELSE IF \E i \in 1..Len(participant_names) :
               participant_names[i] = title(source)
      THEN title(source)
    ELSE "Unknown"

detect_speaker_FirstOther(source, participant_names) ==
    IF source = "microphone"
      THEN IF participant_names # <<>> THEN participant_names[1] ELSE "Me"
    ELSE IF source = "system"
      THEN IF Len(participant_names) > 1 THEN participant_names[2]
                                         ELSE "Them"
    ELSE IF \E i \in 1..Len(participant_names) :
               participant_names[i] = title(source)
      THEN title(source)
    ELSE "Unknown"

\* ParticipantManager._detect_speaker
detect_speaker(source, participant_names) ==
    IF source = "microphone"
      THEN IF participant_names # <<>> THEN participant_names[1] ELSE "Me"
    ELSE IF source = "system"
      THEN LET other_participants ==
                  IF Len(participant_names) > 1
                    THEN Tail(participant_names) ELSE <<"Them">>
           IN  IF Len(other_participants) = 1
                 THEN other_participants[1] ELSE "Them"
    ELSE IF \E i \in 1..Len(participant_names) :
               participant_names[i] = title(source)
      THEN title(source)
    ELSE "Unknown"

item_is_skipped_Blank(item) ==
    item.text = None \/ item.text[1] = <<>>

\* The `if not text: continue` of the loop (line 160), and the items the
\* loop passes by for want of a 'text'.
item_is_skipped(item) ==
    item.text = None \/ strip(item.text[1]) = <<>>

\* The statistics of a speaker so far, zeros for one not yet seen.
stats_of(speaker_statistics, speaker) ==
    IF speaker \in DOMAIN speaker_statistics THEN speaker_statistics[speaker]
    ELSE [ word_count |-> 0, segment_count |-> 0 ]

render_turn_Merging(rendered, speaker, text) ==
    IF rendered # <<>> /\ rendered[Len(rendered)].speaker = speaker
      THEN [ rendered EXCEPT ![Len(rendered)].text = @ \o <<" ">> \o text ]
      ELSE Append(rendered, [ speaker |-> speaker, text |-> text ])

\* transcript_text += f"{speaker}: {text}\n\n" (line 175): one more block
\* at the end of the text.
render_turn(rendered, speaker, text) ==
    Append(rendered, [ speaker |-> speaker, text |-> text ])

\* One iteration of `for item in transcript_data` (lines 157-177); the
\* `if speaker and text` of line 166 passes by a speaker of empty name.
parse_item ==
    /\ parsed = None
    /\ itemIndex <= Len(transcript_data)
    /\ itemIndex' = itemIndex + 1
    /\ LET item == transcript_data[itemIndex]
           text == strip(item.text[1])
           speaker == detect_speaker(item.source, participants)
           old == stats_of(speaker_stats, speaker)
       IN  IF item_is_skipped(item) \/ speaker = ""
             THEN UNCHANGED <<transcript_text, speaker_stats>>
             ELSE /\ speaker_stats' =
                       MapPut(speaker_stats, speaker,
                              [ word_count |-> old.word_count
                                                 + word_count(text),
                                segment_count |-> old.segment_count + 1 ])
                  /\ transcript_text' =
                       render_turn(transcript_text, speaker, text)
    /\ UNCHANGED <<config, reqVars, worldVars, passVars, hist, participants,
                   transcript_data, parsed>>

\* The return of parse_transcript_with_participants: None for an empty
\* transcript (line 148), else the text, the speakers and the statistics.
parse_return ==
    /\ parsed = None
    /\ itemIndex = Len(transcript_data) + 1
    /\ parsed' = IF transcript_data = <<>> THEN Some("None")
                 ELSE Some([ text |-> transcript_text,
                             speakers |-> DOMAIN speaker_stats,
                             speaker_stats |-> speaker_stats ])
    /\ UNCHANGED <<config, reqVars, worldVars, passVars, hist, participants,
                   transcript_data, itemIndex, transcript_text,
                   speaker_stats>>

\* No transcript is being parsed.
ParseIdle ==
    /\ participants = <<>>
    /\ transcript_data = <<>>
    /\ itemIndex = 1
    /\ transcript_text = <<>>
    /\ speaker_stats = <<>>
    /\ parsed = None

----------------------------------------------------------------------------
(* Specifications *)

ReqIdle ==
    /\ reqPc = "idle"
    /\ reqUrl = get_api_url("documents")
    /\ attempt = 0
    /\ reqLog = <<>>
    /\ reqResult = NoResult
    /\ cachedToken = None
    /\ headerToken = 1
    /\ storeToken = 1
    /\ tokenLoads = 0

InitReq ==
    /\ config \in RequestConfigs
    /\ ReqIdle
    /\ ParseIdle
    /\ SyncIdle

NextReq ==
    /\ \/ \E e \in Endpoints, ok \in BOOLEAN : make_request_start(e, ok)
       \/ \E r \in Responses : make_request_attempt(r)
       \/ make_request_done
       \/ RotateToken
    /\ UNCHANGED nonReqVars

SpecReq == InitReq /\ [][NextReq]_vars

\* Spec: passes over a service whose documents come and change, the mapping
\* file in place and within its maximum age, every transcript readable.
SyncConfigs ==
    { [ DefaultConfig EXCEPT !.batch_size = b,
                             !.continue_on_document_error = cd ] :
        b \in 1..MaxBatchSize, cd \in BOOLEAN }

Init ==
    /\ config \in SyncConfigs
    /\ ReqIdle
    /\ ParseIdle
    /\ WorldFresh
    /\ mapFile = MapFileBuilt
    /\ backupDir = <<>>
    /\ PassIdle

Next ==
    \/ Tick
    \/ \E t \in Titles : RemoteCreate(t)
    \/ \E i \in 1..MaxDocs : RemoteUpdate(i)
    \/ start_pass
    \/ \E r \in {"ok", "oserror"} : initialize_sync(r, "ok", "ok", "ok")
    \/ \E o \in {"ok", "fail"} : fetch_page(o)
    \/ \E s \in {"ok", "oserror"} : process_document("ok", s)
    \/ \E c \in {"ok", "fail"} : finalize_pass(c)
    \/ end_pass

Spec == Init /\ [][Next]_vars

\* SpecProc: passes over a service whose documents stay as they are, the
\* clock still, every outcome of a transcript request and of a note write;
\* the last-sync file absent, holding a timestamp, or not readable as one.
\* The listings of n documents.
ProcListings(n) ==
    { [ i \in 1..n |-> [ id |-> i, title |-> "standup",
                          created_at |-> DateString("naive", c[i]),
                          updated_at |-> MissingDate ] ] :
        c \in [1..n -> 0..MaxClock] }

ProcConfigs ==
    { [ DefaultConfig EXCEPT !.batch_size = MaxBatchSize,
                             !.continue_on_document_error = cd,
                             !.continue_on_transcript_error = ct ] :
        cd \in BOOLEAN, ct \in BOOLEAN }

InitProc ==
    /\ config \in ProcConfigs
    /\ ReqIdle
    /\ ParseIdle
    /\ now = MaxClock
    /\ \E n \in 0..MaxDocs : remoteDocs \in ProcListings(n)
    /\ watermarkFile \in {None, Some(0), Some(MaxClock), Unparsable}
    /\ vault = <<>>
    /\ remoteLists = TheLists
    /\ mapFile = MapFileBuilt
    /\ backupDir = <<>>
    /\ PassIdle

NextProc ==
    \/ start_pass
    \/ \E r \in {"ok", "oserror"} : initialize_sync(r, "ok", "ok", "ok")
    \/ \E o \in {"ok", "fail"} : fetch_page(o)
    \/ \E t \in {"ok", "empty", "error"}, s \in {"ok", "oserror"} :
          process_document(t, s)
    \/ \E c \in {"ok", "fail"} : finalize_pass(c)
    \/ end_pass

SpecProc == InitProc /\ [][NextProc]_vars

\* SpecDry: the passes of SpecProc with development.dry_run set in the
\* configuration file (config.py 142-144), over an empty vault.
DryConfigs == { [ c EXCEPT !.dry_run = TRUE ] : c \in ProcConfigs }

InitDry ==
    /\ config \in DryConfigs
    /\ ReqIdle
    /\ ParseIdle
    /\ now = MaxClock
    /\ \E n \in 0..MaxDocs : remoteDocs \in ProcListings(n)
    /\ watermarkFile \in {None, Some(0), Some(MaxClock), Unparsable}
    /\ vault = <<>>
    /\ remoteLists = TheLists
    /\ mapFile = MapFileBuilt
    /\ backupDir = <<>>
    /\ PassIdle

SpecDry == InitDry /\ [][NextProc]_vars

\* SpecMap: passes over a service holding two documents, the mapping file
\* absent at first and stale as soon as the clock has moved.
MapConfigs ==
    { [ DefaultConfig EXCEPT !.mapping_max_age_hours = 0,
                             !.backup_retention_days = 0,
                             !.auto_refresh_mapping = ar,
                             !.auto_backup_mapping = ab,
                             !.continue_on_mapping_error = cm,
                             !.continue_on_document_error = cd ] :
        ar \in BOOLEAN, ab \in BOOLEAN, cm \in BOOLEAN, cd \in BOOLEAN }

InitMap ==
    /\ config \in MapConfigs
    /\ ReqIdle
    /\ ParseIdle
    /\ now = 0
    /\ remoteDocs = << [ id |-> 2, title |-> "retro",
                         created_at |-> DateString("naive", 0),
                         updated_at |-> MissingDate ],
                       [ id |-> 1, title |-> "standup",
                         created_at |-> DateString("naive", 0),
                         updated_at |-> MissingDate ] >>
    /\ watermarkFile = None
    /\ vault = <<>>
    /\ remoteLists = TheLists
    /\ mapFile = NoMapFile
    /\ backupDir = <<>>
    /\ PassIdle

NextMap ==
    \/ Tick
    \/ RemoteRegroup
    \/ start_pass
    \/ \E r \in {"ok", "missing", "oserror"}, l \in {"ok", "fail"},
          b \in {"ok", "fail"}, s \in {"ok", "oserror", "truncated"} :
          initialize_sync(r, l, b, s)
    \/ \E o \in {"ok", "fail"} : fetch_page(o)
    \/ \E t \in {"ok", "empty", "error"}, s \in {"ok", "oserror"} :
          process_document(t, s)
    \/ \E c \in {"ok", "fail"} : finalize_pass(c)
    \/ end_pass

SpecMap == InitMap /\ [][NextMap]_vars

\* SpecParse: one call of parse_transcript_with_participants on each
\* transcript and each participants list.
InitParse ==
    /\ config = DefaultConfig
    /\ ReqIdle
    /\ SyncIdle
    /\ participants \in Rosters
    /\ transcript_data \in Transcripts
    /\ itemIndex = 1
    /\ transcript_text = <<>>
    /\ speaker_stats = <<>>
    /\ parsed = None

NextParse ==
    \/ parse_item
    \/ parse_return

SpecParse == InitParse /\ [][NextParse]_vars

----------------------------------------------------------------------------
(* Properties of the request engine, checked under SpecReq *)

Finished == reqPc \in {"returned", "raised"}

Is500(e) == ~e.resp.exc /\ e.resp.status = 500
Is401(e) == ~e.resp.exc /\ e.resp.status = 401
IsStructured200(e) ==
    ~e.resp.exc /\ e.resp.status = 200 /\ e.resp.body \in {"dict", "list"}
IsUnstructured200(e) ==
    ~e.resp.exc /\ e.resp.status = 200
    /\ e.resp.body \in {"scalar", "undecodable"}
IsTransportFailure(e) == e.resp.exc

\* The first k attempts of the request in progress all returned HTTP 500.
AllFirst500(k) ==
    /\ Len(reqLog) >= k
    /\ \A i \in 1..k : Is500(reqLog[i])

\* The attempts made so far: max_retries - 1 times 500, then a structured 200.
RetryThenSuccessPattern ==
    /\ config.max_retries >= 1
    /\ Len(reqLog) = config.max_retries
    /\ AllFirst500(config.max_retries - 1)
    /\ IsStructured200(reqLog[config.max_retries])

\* C6: for every max_retries >= 1, a request whose first max_retries - 1
\* attempts return HTTP 500 is still being retried after each of them, and when
\* its last attempt then returns HTTP 200 with a dict or list body the request
\* returns exactly that parsed body.
C6_RetryThenSuccess ==
    /\ \A k \in 0..(config.max_retries - 1) :
          (reqPc # "idle" /\ Len(reqLog) = k /\ AllFirst500(k)
             /\ reqResult.kind # "raise")
          => reqPc = "loop"
    /\ RetryThenSuccessPattern
          => /\ reqPc = "returned"
             /\ reqResult =
                  Returned(BodyOf(config.max_retries - 1,
                                  reqLog[config.max_retries].resp))

C6_Witness ==
    /\ RetryThenSuccessPattern
    /\ config.max_retries >= 3
    /\ reqLog[config.max_retries].resp.body = "list"
    /\ reqPc = "returned"

\* C7 as claimed: every request that made an attempt and failed, failed with
\* the error naming the URL and the attempt count.
C7_AlwaysExhaustionError ==
    (reqPc = "raised" /\ Len(reqLog) >= 1)
    => reqResult = Raised(ErrExhausted(reqUrl))

\* A response _make_request hands back: a 200 that decodes, and that is a dict
\* or list unless validation is switched off.
AcceptedResponse(e) ==
    /\ ~e.resp.exc
    /\ e.resp.status = 200
    /\ \/ e.resp.body \in {"dict", "list"}
       \/ ~config.validate_api_responses /\ e.resp.body = "scalar"

\* C7 (amended): a request never makes more than max_retries attempts; it
\* returns a value only for an accepted HTTP 200; and a request that made an
\* attempt and failed, failed either with the authentication error, right after
\* a 401 on an attempt other than the first, or after exactly max_retries
\* attempts with the error naming the URL and max_retries.
C7_BoundedAttemptsThenError ==
    /\ Len(reqLog) <= config.max_retries
    /\ reqResult.kind = "return"
         => /\ Len(reqLog) >= 1
            /\ AcceptedResponse(reqLog[Len(reqLog)])
    /\ (reqPc = "raised" /\ Len(reqLog) >= 1)
         => /\ \A i \in 1..Len(reqLog) - 1 : ~AcceptedResponse(reqLog[i])
            /\ IF Is401(reqLog[Len(reqLog)]) /\ Len(reqLog) >= 2
                 THEN reqResult = Raised(ErrAuth)
                 ELSE /\ Len(reqLog) = config.max_retries
                      /\ reqResult = Raised(ErrExhausted(reqUrl))
                      /\ reqResult.error[1].attempts = Some(config.max_retries)
                      /\ reqResult.error[1].url = Some(reqUrl)

C7_Witness ==
    /\ reqPc = "raised"
    /\ Len(reqLog) = config.max_retries
    /\ config.max_retries >= 3
    /\ reqResult = Raised(ErrExhausted(reqUrl))
    /\ \E i \in 1..Len(reqLog) : IsTransportFailure(reqLog[i])
    /\ \E i \in 1..Len(reqLog) : Is500(reqLog[i])

\* The index of the first attempt of this request answered with HTTP 401.
Has401 == \E i \in 1..Len(reqLog) : Is401(reqLog[i])
First401 ==
    CHOOSE i \in 1..Len(reqLog) :
        Is401(reqLog[i]) /\ \A j \in 1..(i - 1) : ~Is401(reqLog[j])

\* C8: whenever a request that received an HTTP 401 has ended in failure, one
\* further attempt was made after the first 401, and the cached token was
\* cleared for it.
C8_OneRetryAfter401 ==
    (reqPc = "raised" /\ Has401)
    => /\ Len(reqLog) > First401
       /\ (Is401(reqLog[Len(reqLog)]) /\ reqResult = Raised(ErrAuth))
            => Len(reqLog) = First401 + 1

WaitsAfter(i) == i - 1 < config.max_retries - 1

\* C9 as claimed (for configurations with base_delay <= max_delay): the
\* exponential wait follows a transport failure as well.
C9_ExponentialAfterEveryFailure ==
    \A i \in 1..Len(reqLog) :
        ( /\ config.retry_base_delay <= config.retry_max_delay
          /\ WaitsAfter(i)
          /\ \/ IsTransportFailure(reqLog[i])
             \/ (~reqLog[i].resp.exc /\ reqLog[i].resp.status \notin {200, 401}) )
        => reqLog[i].wait =
             Some(Min(config.retry_base_delay * Pow2(i - 1),
                      config.retry_max_delay))

\* C9 (amended): after an attempt that is not the last and ends in a status
\* other than 200 and 401 the wait is min(base_delay * 2^attempt, max_delay);
\* after one that ends in a transport-level failure the wait is base_delay.
C9_BackoffWait ==
    \A i \in 1..Len(reqLog) :
        /\ ( /\ WaitsAfter(i)
             /\ ~reqLog[i].resp.exc
             /\ reqLog[i].resp.status \notin {200, 401} )
           => reqLog[i].wait =
                Some(Min(config.retry_base_delay * Pow2(i - 1),
                         config.retry_max_delay))
        /\ (WaitsAfter(i) /\ IsTransportFailure(reqLog[i]))
           => reqLog[i].wait = Some(config.retry_base_delay)

C9_Witness ==
    /\ Len(reqLog) >= 3
    /\ Is500(reqLog[3])
    /\ IsTransportFailure(reqLog[2])
    /\ reqLog[3].wait = Some(4)
    /\ reqLog[2].wait = Some(1)
    /\ config.retry_max_delay > 3

\* C10 as claimed: no 200 whose body is not a dict or list is ever returned.
C10_NeverReturnsUnstructured ==
    reqResult.kind = "return" => reqResult.data[1].kind \in {"dict", "list"}

\* C10 (amended): with validate_api_responses enabled, a 200 whose body does
\* not decode to a dict or list is never returned; after it the request goes on
\* to another attempt when one remains and otherwise fails with the exhaustion
\* error.
C10_UnstructuredIsFailedAttempt ==
    config.validate_api_responses
    => /\ reqResult.kind = "return"
            => reqResult.data[1].kind \in {"dict", "list"}
       /\ (Len(reqLog) >= 1 /\ IsUnstructured200(reqLog[Len(reqLog)]))
            => IF Len(reqLog) < config.max_retries
                 THEN reqPc = "loop" /\ reqResult = NoResult
                 ELSE reqPc = "raised"
                      /\ reqResult = Raised(ErrExhausted(reqUrl))

C10_Witness ==
    /\ config.validate_api_responses
    /\ Len(reqLog) >= 2
    /\ reqLog[1].resp.body = "scalar"
    /\ reqLog[2].resp.body = "undecodable"
    /\ reqPc = "raised"
    /\ Len(reqLog) = config.max_retries

\* SpecFetch: the fetch of a pass over a listing the service gives in any
\* order, its date fields naive ("2024-01-05T10:00:00"), offset-aware
\* ("...Z"), unparsable or absent, the clock at 2 and the watermark at 1.
CreatedDates ==
    { DateString("naive", t) : t \in 0..2 }
      \cup { DateString("aware", 0), DateString("aware", 2),
              DateString("bad", 0), MissingDate }

UpdatedDates ==
    { MissingDate, DateString("bad", 0), DateString("naive", 0),
      DateString("naive", 2), DateString("aware", 0) }

\* The listings of n documents.
FetchListings(n) ==
    { [ i \in 1..n |-> [ id |-> i, title |-> "standup",
                          created_at |-> c[i], updated_at |-> u[i] ] ] :
        c \in [1..n -> CreatedDates], u \in [1..n -> UpdatedDates] }

FetchConfigs ==
    { [ DefaultConfig EXCEPT !.batch_size = b,
                             !.continue_on_document_error = cd ] :
        b \in 1..MaxBatchSize, cd \in BOOLEAN }

InitFetch ==
    /\ config \in FetchConfigs
    /\ ReqIdle
    /\ ParseIdle
    /\ now = 2
    /\ \E n \in 0..MaxDocs : remoteDocs \in FetchListings(n)
    /\ watermarkFile = Some(1)
    /\ vault = <<>>
    /\ remoteLists = TheLists
    /\ mapFile = MapFileBuilt
    /\ backupDir = <<>>
    /\ PassIdle

NextFetch ==
    \/ start_pass
    \/ initialize_sync("ok", "ok", "ok", "ok")
    \/ \E o \in {"ok", "fail"} : fetch_page(o)

SpecFetch == InitFetch /\ [][NextFetch]_vars

\* The listings of n documents created before or after the watermark, or
\* with a creation date of another kind, updated after it or never.
LiveListings(n) ==
    { [ i \in 1..n |-> [ id |-> i, title |-> "standup",
                          created_at |-> c[i], updated_at |-> u[i] ] ] :
        c \in [1..n -> { DateString("naive", 0), DateString("naive", 2),
                         DateString("aware", 0), DateString("bad", 0),
                         MissingDate }],
        u \in [1..n -> { MissingDate, DateString("naive", 2) }] }

InitFetchLive ==
    /\ config \in FetchConfigs
    /\ ReqIdle
    /\ ParseIdle
    /\ now = 2
    /\ \E n \in 0..MaxDocs : remoteDocs \in LiveListings(n)
    /\ watermarkFile = Some(1)
    /\ vault = <<>>
    /\ remoteLists = TheLists
    /\ mapFile = MapFileBuilt
    /\ backupDir = <<>>
    /\ PassIdle

\* SpecFetchLive: the paging of SpecFetch with the loop running on: the
\* `while True` of fetch_documents_since goes to its next request as long as
\* no branch has left it.
SpecFetchLive ==
    /\ InitFetchLive
    /\ [][NextFetch]_vars
    /\ WF_vars(\E o \in {"ok", "fail"} : fetch_page(o))

----------------------------------------------------------------------------
(* Properties of the sync pass, checked under Spec and SpecMap *)

PassFailed == result # None /\ ~result[1].success
PassSucceeded == result # None /\ result[1].success

C2_NoDueDocumentSkipped ==
    (pc = "done" /\ PassSucceeded) => hist.due \subseteq hist.handed

InitFailureSeen ==
    \/ hist.rosterIn \in {"missing", "oserror"}
    \/ hist.listsIn = "fail"
    \/ hist.saveIn \in {"oserror", "truncated"}

\* The Init failures that leave _initialize_sync as an exception.
InitFailureRaised ==
    \/ hist.rosterIn = "oserror"
    \/ hist.listsIn = "fail" /\ ~config.continue_on_mapping_error
    \/ hist.saveIn \in {"oserror", "truncated"}

PassAbortedInInit ==
    /\ pc = "done"
    /\ PassFailed
    /\ hist.failedIn = "init"
    /\ hist.pageRequests = 0
    /\ watermarkFile = hist.wmAtStart

\* C4 as claimed: every failure to load the roster or to load or refresh the
\* mapping aborts the pass.
C4_AnyInitFailureAborts == InitFailureSeen => PassAbortedInInit

\* C4 (amended): the pass is aborted in Init, with a failure result, no
\* document request and the watermark left alone, exactly when the roster file
\* read fails with an error other than file-not-found, undecodable JSON or a
\* missing key, the remote lists request fails under the abort mapping
\* policy, or the rebuilt mapping cannot be written.
C4_RaisedInitFailureAborts ==
    /\ InitFailureRaised => PassAbortedInInit
    /\ hist.failedIn = "init" => InitFailureRaised
    /\ (pc # "init" /\ pc # "idle" /\ ~InitFailureRaised)
         => hist.failedIn # "init"

C4_Witness ==
    /\ PassAbortedInInit
    /\ hist.rosterIn = "missing"
    /\ hist.listsIn = "ok"
    /\ hist.saveIn = "oserror"
    /\ hist.wmAtStart # None
    /\ now > hist.wmAtStart[1]

----------------------------------------------------------------------------
(* Properties of the document fetcher, checked under SpecFetch and Spec *)

DocIds(documents) == { documents[k].id : k \in 1..Len(documents) }

\* The places in the listing of the page at the current offset.
PagePlaces ==
    { i \in 1..Len(remoteDocs) :
        offset < i /\ i <= offset + config.batch_size }

\* This step is a documents request that brought a page with documents.
PageRetrieved ==
    /\ pc = "fetching"
    /\ offset' = offset + config.batch_size
    /\ PagePlaces # {}

DateIs(d, t) == d.kind \in {"naive", "aware"} /\ d.t = t

\* C11: after every step that retrieves a page, every document of the page
\* whose creation or update timestamp is at or after the watermark is in the
\* accumulated result, wherever it stands on the page.
C11_RecentOnPageIsKept ==
    [][ PageRetrieved
        => \A i \in PagePlaces :
             IsDue(remoteDocs[i], lastSync)
             => remoteDocs[i].id \in DocIds(allDocuments') ]_vars

\* C12: a document created one second before the watermark and carrying no
\* updated_at is in no result of the fetch, and after every step that
\* retrieves a page a document of the page created one second after the
\* watermark is in the accumulated result.
C12_OneSecondEitherSide ==
    [][ /\ \A i \in 1..Len(remoteDocs) :
             ( /\ pc = "fetching"
               /\ DateIs(remoteDocs[i].created_at, lastSync - 1)
               /\ remoteDocs[i].updated_at = MissingDate )
             => remoteDocs[i].id \notin DocIds(allDocuments')
        /\ PageRetrieved
           => \A i \in PagePlaces :
                DateIs(remoteDocs[i].created_at, lastSync + 1)
                => remoteDocs[i].id \in DocIds(allDocuments') ]_vars

\* C13: after every step that retrieves a page, every document of the page
\* whose created_at or updated_at does not parse is in the accumulated
\* result, whatever the other field holds.
C13_UnparsableIsKept ==
    [][ PageRetrieved
        => \A i \in PagePlaces :
             ( \/ remoteDocs[i].created_at.kind = "bad"
               \/ remoteDocs[i].updated_at.kind = "bad" )
             => remoteDocs[i].id \in DocIds(allDocuments') ]_vars

\* This step is a documents request that failed after its retries although
\* the service holds documents at the offset asked for.
PageRequestFailed ==
    /\ pc = "fetching"
    /\ pc' # "fetching"
    /\ offset' = offset
    /\ PagePlaces # {}

\* C14: when a page request fails after its retries, under the continue
\* document policy the fetch returns just the documents accumulated from the
\* earlier pages and nothing is raised; under the abort policy the pass ends
\* with a failure result, the watermark left alone. The fetch ends a pass
\* only in that way.
C14_PageFailurePolicy ==
    [][ /\ PageRequestFailed
           => IF config.continue_on_document_error
                THEN /\ allDocuments' = allDocuments
                     /\ result' = None
                     /\ pc' = IF allDocuments = <<>> THEN "write_empty"
                                                     ELSE "processing"
                     /\ watermarkFile' = watermarkFile
                ELSE /\ pc' = "done"
                     /\ result' # None
                     /\ ~result'[1].success
                     /\ hist'.failedIn = "fetching"
                     /\ watermarkFile' = watermarkFile
        /\ (pc = "fetching" /\ pc' = "done")
           => /\ ~config.continue_on_document_error
              /\ result' # None
              /\ ~result'[1].success ]_vars

C14_Witness ==
    /\ pc = "processing"
    /\ config.continue_on_document_error
    /\ allDocuments # <<>>
    /\ offset = Len(allDocuments)
    /\ filter_page(RemotePage(config.batch_size, offset), lastSync) # <<>>

----------------------------------------------------------------------------
(* Properties of document processing, checked under SpecProc *)

\* This step is an iteration of _process_documents whose document raised:
\* only the except branch and the failed save count a failed document.
DocumentRaised ==
    /\ pc = "processing"
    /\ stats'.documents_failed > stats.documents_failed

\* The ids of the first n fetched documents.
FirstIds(n) == { allDocuments[k].id : k \in 1..n }

NotesOf(id) == { f \in DOMAIN vault : vault[f].id = id }

TranscriptRaised ==
    /\ pc = "processing"
    /\ ~config.continue_on_transcript_error
    /\ stats'.transcripts_failed = stats.transcripts_failed + 1
    /\ stats'.documents_failed = stats.documents_failed + 1

\* C16: when the transcript policy is abort and a transcript request fails,
\* the pass ends at once with a failure result and the watermark as it was,
\* whatever the document policy.
C16_TranscriptAbortIsFatal ==
    [][ TranscriptRaised
        => /\ pc' = "done"
           /\ result' # None
           /\ ~result'[1].success
           /\ watermarkFile' = watermarkFile ]_vars

\* This step is an iteration under the continue transcript policy whose
\* transcript request failed or brought nothing readable.
TranscriptSoftFailure ==
    /\ pc = "processing"
    /\ config.continue_on_transcript_error
    /\ stats'.transcripts_failed = stats.transcripts_failed + 1

CurrentFilename ==
    create_safe_filename(allDocuments[docIndex].title,
                         extract_date(allDocuments[docIndex]))

C18_TwoOutcomes ==
    /\ pc # "raised"
    /\ pc = "done" <=> result # None
    /\ result # None
       => /\ success_rate(stats) # None
          /\ \/ result[1].success /\ result[1].error = None
             \/ /\ ~result[1].success
                /\ result[1].error # None
                /\ result[1].error[1] # ""
                /\ hist.failedIn # "none"
          /\ result[1].success <=> hist.failedIn = "none"

C18_Witness ==
    /\ pc = "done"
    /\ PassFailed
    /\ result[1].error = Some("Exception")
    /\ stats.documents_processed = 0
    /\ stats.documents_failed > 0

----------------------------------------------------------------------------
(* Properties of the group mapping cache, checked under SpecMap *)

\* This step is an _initialize_sync that got as far as load_document_mapping.
MappingLoaded ==
    /\ pc = "init"
    /\ ~load_participant_data_raises(hist'.rosterIn)

\* The mapping file is older than the configured maximum.
MappingFileAged ==
    /\ mapFile.state # "absent"
    /\ now - mapFile.mtime > config.mapping_max_age_hours

\* The pass asked the service for its lists, which a rebuild starts with.
ListsRequested == hist'.listsIn # "none"

\* C19: a pass rebuilds the mapping from the service exactly when
\* auto-refresh is enabled and the mapping file is absent, older than the
\* maximum age or does not parse; with auto-refresh disabled there is no
\* rebuild and no lists request.
C19_RebuildIffEnabledAndStale ==
    [][ MappingLoaded
        => ( ListsRequested
             <=> /\ config.auto_refresh_mapping
                 /\ \/ mapFile.state \in {"absent", "corrupt"}
                    \/ MappingFileAged ) ]_vars

DocumentIds == 1..MaxDocs

\* C20: when auto-refresh is enabled and the mapping file is older than the
\* maximum age as a pass starts, and the pass goes on past Init, the list
\* get_document_list_info gives for every document is the one of the lists
\* fetch_document_lists returned in that pass (the lists of the service, or
\* none at all when the request failed under the continue mapping policy),
\* and it stays so until the pass ends.
C20_AgedMappingIsRefetched ==
    [][ /\ ( /\ pc = "init"
             /\ pc' = "fetching"
             /\ config.auto_refresh_mapping
             /\ MappingFileAged )
           => /\ ListsRequested
              /\ \A d \in DocumentIds :
                   get_document_list_info(d)' =
                     list_info(flatten_document_lists(
                                 IF hist'.listsIn = "ok" THEN remoteLists
                                                         ELSE <<>>, <<>>), d)
        /\ pc \in {"fetching", "processing", "write", "write_empty", "done"}
           /\ pc' # "idle"
           => docMapping' = docMapping ]_vars

C20_Witness ==
    /\ pc = "processing"
    /\ config.auto_refresh_mapping
    /\ hist.mapAtStart.state = "valid"
    /\ hist.listsIn = "ok"
    /\ docMapping = flatten_document_lists(remoteLists, <<>>)
    /\ get_document_list_info(allDocuments[docIndex].id) #
         list_info(hist.mapAtStart.content, allDocuments[docIndex].id)

----------------------------------------------------------------------------
(* Properties of the mapping backups, checked under SpecMap *)

\* The step is an _initialize_sync that reaches the write of a rebuilt
\* mapping over a mapping file in place, auto_backup_mapping set.
OverwriteWithBackup ==
    /\ pc = "init"
    /\ hist'.saveIn # "none"
    /\ config.auto_backup_mapping
    /\ mapFile.state # "absent"

\* C21: when a rebuild writes over a mapping file in place and
\* auto_backup_mapping is set, a copy that works leaves a backup named after
\* the current time that holds the file as it was before the write; and
\* whatever the copy did, a write that works leaves the rebuilt mapping in
\* the file and the pass goes on.
C21_BackupBeforeOverwrite ==
    [][ OverwriteWithBackup =>
          /\ hist'.backupIn = "ok" =>
                /\ now \in DOMAIN backupDir'
                /\ backupDir'[now] = mapFile
          /\ hist'.saveIn = "ok" =>
                /\ mapFile' = [ state |-> "valid", mtime |-> now,
                                content |-> docMapping' ]
                /\ docMapping' = flatten_document_lists(
                      IF hist'.listsIn = "ok" THEN remoteLists ELSE <<>>, <<>>)
                /\ pc' = "fetching" ]_vars

\* A rebuilt mapping replaced a valid one of other content, the backup of
\* this second holding the replaced file.
C21_Witness ==
    /\ pc = "fetching"
    /\ hist.backupIn = "ok"
    /\ hist.saveIn = "ok"
    /\ hist.mapAtStart.state = "valid"
    /\ mapFile.content # hist.mapAtStart.content
    /\ now \in DOMAIN backupDir
    /\ backupDir[now] = hist.mapAtStart

\* The copy failed and the rebuilt mapping is in the file.
BackupFailedMappingSaved ==
    /\ pc = "fetching"
    /\ hist.backupIn = "fail"
    /\ hist.saveIn = "ok"
    /\ mapFile.mtime = now
    /\ mapFile.content # hist.mapAtStart.content

----------------------------------------------------------------------------
(* Properties of a repeated pass, checked under SpecMap *)

\* The places in the lists response of the lists that hold document d.
ListsHolding(lists, d) ==
    { i \in 1..Len(lists) :
        \E j \in 1..Len(lists[i].documents) : lists[i].documents[j] = d }

\* What the lists response says of each document: the last list holding it.
MappingOfLists(lists) ==
    [ d \in { e \in DocumentIds : ListsHolding(lists, e) # {} } |->
        LET i == CHOOSE k \in ListsHolding(lists, d) :
                    \A m \in ListsHolding(lists, d) : m <= k
        IN  [ document_list_id |-> lists[i].id,
              document_list_name |-> lists[i].name ] ]

\* The step is an _initialize_sync that rebuilt the mapping from the lists
\* the service returned and wrote it.
RebuildSaved ==
    /\ pc = "init"
    /\ hist'.listsIn = "ok"
    /\ hist'.saveIn = "ok"

\* The step is a _process_single_document that wrote the note.
NoteWritten ==
    /\ pc = "processing"
    /\ ~config.dry_run
    /\ stats'.documents_processed = stats.documents_processed + 1

\* What the note of the document in hand holds, by the document, by whether
\* its transcript was read in this step, and by the mapping of the pass.
RenderedNote ==
    [ id |-> allDocuments[docIndex].id,
      body |-> IF stats'.transcripts_fetched > stats.transcripts_fetched
                 THEN "transcript" ELSE "placeholder",
      document_list |-> list_info(docMapping, allDocuments[docIndex].id) ]

\* C22: a pass gives again what it gave.  A rebuilt mapping is what the
\* lists of the service say and nothing else, so a rebuild from the lists the
\* file was built from leaves its content as it was; a written note is what
\* the document, its transcript and the mapping say and nothing else, so
\* writing again the note these already gave leaves the vault as it was.
C22_PassIsIdempotent ==
    [][ /\ RebuildSaved =>
              /\ mapFile'.content = MappingOfLists(remoteLists)
              /\ docMapping' = mapFile'.content
              /\ (mapFile.state = "valid"
                    /\ mapFile.content = MappingOfLists(remoteLists))
                 => mapFile'.content = mapFile.content
        /\ NoteWritten =>
              /\ CurrentFilename \in DOMAIN vault'
              /\ vault'[CurrentFilename] = RenderedNote
              /\ \A f \in DOMAIN vault \ {CurrentFilename} :
                    f \in DOMAIN vault' /\ vault'[f] = vault[f]
              /\ (CurrentFilename \in DOMAIN vault
                    /\ vault[CurrentFilename] = RenderedNote)
                 => vault' = vault ]_vars

\* A second pass from the watermark file of the first (none): the mapping
\* was rebuilt from the lists it had been built from, a note was written
\* over the note of the first pass.
C22_Witness ==
    /\ pc \in {"processing", "write"}
    /\ hist.wmAtStart = None
    /\ hist.listsIn = "ok"
    /\ hist.saveIn = "ok"
    /\ hist.mapAtStart.state = "valid"
    /\ hist.mapAtStart.content = MappingOfLists(remoteLists)
    /\ mapFile.content = hist.mapAtStart.content
    /\ mapFile.mtime > hist.mapAtStart.mtime
    /\ stats.documents_updated >= 1

----------------------------------------------------------------------------
(* Properties of the speaker attribution, checked under SpecParse *)

\* The loop is at an item with a text that is not blank.
AtTurn ==
    /\ parsed = None
    /\ itemIndex <= Len(transcript_data)
    /\ transcript_data[itemIndex].text # None
    /\ strip(transcript_data[itemIndex].text[1]) # <<>>

\* The loop is at such an item whose source is `system`.
AtSystemTurn == AtTurn /\ transcript_data[itemIndex].source = "system"

\* The step renders the turn the loop is at under the speaker, and counts
\* one segment more for the speaker.
TurnGoesTo(speaker) ==
    /\ Len(transcript_text') = Len(transcript_text) + 1
    /\ transcript_text'[Len(transcript_text')].speaker = speaker
    /\ transcript_text'[Len(transcript_text')].text =
          strip(transcript_data[itemIndex].text[1])
    /\ speaker \in DOMAIN speaker_stats'
    /\ speaker_stats'[speaker].segment_count =
          stats_of(speaker_stats, speaker).segment_count + 1

Turn(source, text) == [ source |-> source, text |-> Some(text) ]

\* The call of the example has returned: participants Me and Alice, a
\* microphone turn 'hi' then a system turn 'hello'.
MeAliceReturned ==
    /\ participants = <<"Me", "Alice">>
    /\ transcript_data = << Turn("microphone", <<"h", "i">>),
                            Turn("system", <<"h", "e", "l", "l", "o">>) >>
    /\ parsed # None

\* C23: a system turn, the participants being two, is rendered under the
\* name of the second and counted for it; with participants Me and Alice, a
\* microphone turn 'hi' then a system turn 'hello' give 'Me: hi' then
\* 'Alice: hello', one word and one segment each.
C23_TwoPersonSystemTurn ==
    /\ [][ (AtSystemTurn /\ Len(participants) = 2)
              => TurnGoesTo(participants[2]) ]_vars
    /\ [](MeAliceReturned =>
            /\ parsed[1].text =
                  << [ speaker |-> "Me", text |-> <<"h", "i">> ],
                     [ speaker |-> "Alice",
                       text |-> <<"h", "e", "l", "l", "o">> ] >>
            /\ DOMAIN parsed[1].speaker_stats = {"Me", "Alice"}
            /\ \A n \in {"Me", "Alice"} :
                  parsed[1].speaker_stats[n] =
                     [ word_count |-> 1, segment_count |-> 1 ])

C23_Witness ==
    /\ MeAliceReturned
    /\ Len(parsed[1].text) = 2
    /\ parsed[1].text[2].speaker = "Alice"

\* C24: a system turn, the participants being three or more, is rendered
\* under "Them" and counted for "Them"; a transcript of system turns only
\* names no other speaker.
C24_ManyPersonSystemTurn ==
    /\ [][ (AtSystemTurn /\ Len(participants) >= 3)
              => TurnGoesTo("Them") ]_vars
    /\ []((/\ parsed # None
           /\ Len(participants) >= 3
           /\ \A i \in 1..Len(transcript_data) :
                 transcript_data[i].source = "system") =>
            /\ \A j \in 1..Len(transcript_text) :
                  transcript_text[j].speaker = "Them"
            /\ DOMAIN speaker_stats \subseteq {"Them"})

\* Me, Alice and Bob; a system turn was rendered under "Them".
C24_Witness ==
    /\ participants = <<"Me", "Alice", "Bob">>
    /\ parsed # None
    /\ transcript_data = << Turn("system", <<"h", "i">>) >>
    /\ parsed[1].text = << [ speaker |-> "Them", text |-> <<"h", "i">> ] >>

\* The sum of f over the set S.
RECURSIVE SumOver(_, _)
SumOver(f, S) ==
    IF S = {} THEN 0
    ELSE LET x == CHOOSE y \in S : TRUE
         IN  f[x] + SumOver(f, S \ {x})

\* The item has a text that is not empty once trimmed.
IsSpoken(item) == item.text # None /\ strip(item.text[1]) # <<>>

\* The items the loop has gone through that have such a text, in order.
SpokenTurns == SelectSeq(SubSeq(transcript_data, 1, itemIndex - 1), IsSpoken)

\* The tokens of the texts, as the service sent them, of the turns rendered
\* under the speaker.
TokensOf(speaker) ==
    SumOver([ j \in 1..Len(SpokenTurns) |->
                IF transcript_text[j].speaker = speaker
                  THEN word_count(SpokenTurns[j].text[1]) ELSE 0 ],
            1..Len(SpokenTurns))

SegmentsOf(speaker) ==
    Cardinality({ j \in 1..Len(transcript_text) :
                    transcript_text[j].speaker = speaker })

\* C25: turns whose text is empty once trimmed leave no trace.  At every
\* point of the loop, and in what the call returns: the segment counts of
\* all speakers add up to the number of turns gone through whose trimmed text
\* is not empty; the rendered text has one entry for each such turn, in order,
\* holding its trimmed text, and no entry with an empty text; the word count
\* of a speaker is the sum of the whitespace-split token counts of the turns
\* rendered under the speaker.
C25_EmptyTurnsLeaveNoTrace ==
    /\ SumOver([ n \in DOMAIN speaker_stats |->
                   speaker_stats[n].segment_count ], DOMAIN speaker_stats)
          = Len(SpokenTurns)
    /\ Len(transcript_text) = Len(SpokenTurns)
    /\ \A j \in 1..Len(transcript_text) :
          /\ transcript_text[j].text = strip(SpokenTurns[j].text[1])
          /\ transcript_text[j].text # <<>>
    /\ DOMAIN speaker_stats =
          { transcript_text[j].speaker : j \in 1..Len(transcript_text) }
    /\ \A n \in DOMAIN speaker_stats :
          /\ speaker_stats[n].word_count = TokensOf(n)
          /\ speaker_stats[n].segment_count = SegmentsOf(n)
    /\ (parsed # None /\ transcript_data # <<>>) =>
          /\ parsed[1].text = transcript_text
          /\ parsed[1].speaker_stats = speaker_stats

\* A blank turn then a turn of two words between blanks: one entry, one
\* segment, two words.
C25_Witness ==
    /\ parsed # None
    /\ Len(transcript_data) = 2
    /\ transcript_data[1].text = Some(<<" ">>)
    /\ transcript_data[2] =
          Turn("microphone", <<" ", "h", "i", " ", "y", "o", " ">>)
    /\ participants = <<"Me", "Alice">>
    /\ Len(parsed[1].text) = 1
    /\ parsed[1].speaker_stats["Me"] =
          [ word_count |-> 2, segment_count |-> 1 ]

----------------------------------------------------------------------------
(* Properties of the watermark store, checked under SpecProc *)

\* The pass is past the read of the watermark.
WatermarkRead == pc \in {"fetching", "processing", "write_empty", "write"}

\* The last-sync file held one timestamp when the pass began.
HeldTimestamp == Len(hist.wmAtStart) = 1

\* C26: the watermark a pass works with is the timestamp the last-sync file
\* held when the file held one, and else (no file, or a content that is no
\* timestamp) the current time less default_lookback_days.
C26_WatermarkOrLookback ==
    WatermarkRead =>
       /\ HeldTimestamp => lastSync = hist.wmAtStart[1]
       /\ ~HeldTimestamp => lastSync = now - config.default_lookback_days

\* A pass that began with a last-sync file holding no timestamp works with
\* the lookback.
C26_Witness ==
    /\ pc = "processing"
    /\ hist.wmAtStart = Unparsable
    /\ lastSync = now - config.default_lookback_days

\* A pass that began with a timestamp in the file works with it.
StoredWatermarkUsed ==
    /\ pc = "processing"
    /\ hist.wmAtStart = Some(MaxClock)
    /\ lastSync = MaxClock

\* A pass that began without a file works with the lookback.
AbsentWatermarkLookback ==
    /\ pc = "processing"
    /\ hist.wmAtStart = None
    /\ lastSync = now - config.default_lookback_days

----------------------------------------------------------------------------
(* Properties of the token reload, checked under SpecReq *)

\* The step is the attempt that follows a 401 on the first attempt.
RetryAfterFirst401 ==
    /\ reqPc = "loop"
    /\ attempt = 1
    /\ Len(reqLog) = 1
    /\ Is401(reqLog[1])
    /\ Len(reqLog') = 2

\* The step is a first attempt answered by a 401.
First401Step ==
    /\ reqPc = "loop"
    /\ attempt = 0
    /\ Len(reqLog') = 1
    /\ Is401(reqLog'[1])

\* C27: a 401 on the first attempt clears the cached token and is followed
\* by no wait; the attempt that follows it is sent with the token a reload
\* of the credential store gives at that time, not with the token of the
\* headers of the rejected attempt.
C27_RetryUsesReloadedToken ==
    [][ /\ First401Step =>
              /\ cachedToken' = None
              /\ reqLog'[1].wait = None
        /\ RetryAfterFirst401 =>
              /\ reqLog[1].wait = None
              /\ reqLog'[2].token = storeToken ]_vars

----------------------------------------------------------------------------
(* Properties of the paging, checked under SpecFetch *)

\* No document of the page at the current offset has a creation or update
\* timestamp at or after the watermark.
NothingDueOnPage ==
    \A i \in PagePlaces : ~IsDue(remoteDocs[i], lastSync)

\* C28: a documents request that did not fail ends the paging exactly when
\* its page is empty or holds no document created or updated at or after the
\* watermark; a page holding such a document is followed by another request.
C28_PagingStopsExactly ==
    [][ (pc = "fetching" /\ ~PageRequestFailed)
          => (pc' # "fetching" <=> (PagePlaces = {} \/ NothingDueOnPage))
      ]_vars

----------------------------------------------------------------------------
(* Properties of the failure count, checked under SpecProc *)

\* C29: when a pass has ended, documents_failed is the number of documents
\* handed to processing whose processing did not complete, a document whose
\* note could not be saved counted once like any other.
C29_FailedCountedOnce ==
    pc \in {"write", "done"}
    => stats.documents_failed =
          Cardinality(hist.handed) - stats.documents_processed

----------------------------------------------------------------------------
(* Properties of the backup cleanup, checked under Spec *)

\* C30: a pass that has ended in success has written the watermark and run
\* the cleanup of the mapping backups, whether or not it had documents to
\* process; and a pass whose cleanup failed has ended in success.
C30_SuccessfulPassCleansUp ==
    pc = "done"
    => /\ PassSucceeded => /\ watermarkFile = Some(now)
                           /\ hist.cleanupIn # "none"
       /\ hist.cleanupIn = "fail" => PassSucceeded

----------------------------------------------------------------------------
(* Properties of the order of a pass, checked under Spec *)

\* The moves of run_sync from one phase to the next: Init, Fetching,
\* Processing, Finalizing, and the return from any of them.
PhaseMoves ==
    { <<"idle", "init">>,
      <<"init", "fetching">>, <<"init", "done">>,
      <<"fetching", "fetching">>, <<"fetching", "processing">>,
      <<"fetching", "write_empty">>, <<"fetching", "done">>,
      <<"processing", "processing">>, <<"processing", "write">>,
      <<"processing", "done">>,
      <<"write_empty", "done">>, <<"write", "done">>,
      <<"done", "idle">> }

InPass == pc \notin {"idle", "done"}

\* C31: the phases of a pass follow one another as Init, Fetching,
\* Processing, Finalizing. A documents request is made only in Fetching,
\* after the roster and the mapping were loaded; a document is handed to
\* processing only in Processing, the fetch over and its result fixed; the
\* watermark file is written only in Finalizing, every fetched document
\* handed to processing before.
C31_PhaseOrder ==
    [][ /\ pc' # pc => <<pc, pc'>> \in PhaseMoves
        /\ (InPass /\ hist'.pageRequests # hist.pageRequests)
              => /\ pc = "fetching"
                 /\ hist.rosterIn # "none"
                 /\ hist.handed = {}
        /\ (InPass /\ hist'.handed # hist.handed)
              => /\ pc = "processing"
                 /\ allDocuments' = allDocuments
                 /\ offset' = offset
                 /\ hist'.pageRequests = hist.pageRequests
        /\ watermarkFile' # watermarkFile
              => /\ pc \in {"write_empty", "write"}
                 /\ pc' = "done"
                 /\ docIndex = Len(allDocuments) + 1
                 /\ hist.handed = DocIds(allDocuments) ]_vars

\* A pass went through the four phases: two documents requests, a document
\* processed, the watermark written.
C31_Witness ==
    /\ pc = "done"
    /\ PassSucceeded
    /\ hist.pageRequests >= 2
    /\ hist.handed # {}
    /\ watermarkFile = Some(now)
    /\ watermarkFile # hist.wmAtStart

----------------------------------------------------------------------------
(* Properties of the rebuilt mapping, checked under SpecMap *)

\* The place of the last list of the response that holds document d.
LastListHolding(lists, d) ==
    CHOOSE k \in ListsHolding(lists, d) :
        \A m \in ListsHolding(lists, d) : m <= k

\* C32: a mapping rebuilt from the lists of the service and saved has an
\* entry for each document that a list holds and for no other, and the entry
\* of a document names the last list of the response that holds it.
C32_LastListWins ==
    [][ RebuildSaved =>
          \A d \in DocumentIds :
             IF ListsHolding(remoteLists, d) = {}
               THEN d \notin DOMAIN mapFile'.content
               ELSE /\ d \in DOMAIN mapFile'.content
                    /\ list_info(mapFile'.content, d) =
                         << remoteLists[LastListHolding(remoteLists, d)].name,
                            remoteLists[LastListHolding(remoteLists, d)].id >>
      ]_vars

\* Document 1 is in two lists of the response; the saved mapping has it in
\* the second.
C32_Witness ==
    /\ pc = "fetching"
    /\ hist.listsIn = "ok"
    /\ hist.saveIn = "ok"
    /\ Cardinality(ListsHolding(remoteLists, 1)) = 2
    /\ list_info(mapFile.content, 1) = <<"Board", "L2">>

----------------------------------------------------------------------------
(* Properties of the microphone turns and of the rendered text, checked
   under SpecParse *)

\* The loop is at an item with a text that is not blank, from `microphone`.
AtMicrophoneTurn ==
    AtTurn /\ transcript_data[itemIndex].source = "microphone"

\* The speaker of the local user: the first participant, "Me" without any.
LocalUser == IF participants = <<>> THEN "Me" ELSE participants[1]

\* C33: a microphone turn is rendered under the first participant and
\* counted for it, under "Me" when there is no participant, whatever the
\* other participants and the other turns are; in what the call returns
\* every turn from the microphone stands under that speaker.
C33_MicrophoneIsLocalUser ==
    /\ [][ AtMicrophoneTurn => TurnGoesTo(LocalUser) ]_vars
    /\ []((/\ parsed # None
           /\ \A i \in 1..Len(transcript_data) :
                 transcript_data[i].source = "microphone") =>
            /\ \A j \in 1..Len(transcript_text) :
                  transcript_text[j].speaker = LocalUser
            /\ DOMAIN speaker_stats \subseteq {LocalUser})

\* Alice first of three: a system turn, then a microphone turn rendered
\* under Alice.
C33_Witness ==
    /\ parsed # None
    /\ participants = <<"Alice", "Me", "Bob">>
    /\ transcript_data = << Turn("system", <<"h", "i">>),
                            Turn("microphone", <<"h", "e", "l", "l", "o">>) >>
    /\ parsed[1].text[2].speaker = "Alice"

\* No participant: the microphone turn is rendered under "Me".
MicrophoneWithoutRoster ==
    /\ parsed # None
    /\ participants = <<>>
    /\ transcript_data = << Turn("microphone", <<"h", "i">>) >>
    /\ parsed[1].text[1].speaker = "Me"

\* The speaker a turn is rendered under, by its source and the participants.
SpeakerOf(item) ==
    CASE item.source = "microphone" -> LocalUser
      [] item.source = "system" ->
            IF Len(participants) = 2 THEN participants[2] ELSE "Them"
      [] OTHER ->
            IF \E i \in 1..Len(participants) :
                  participants[i] = title(item.source)
              THEN title(item.source) ELSE "Unknown"

\* C34: the rendered text is, at every point of the loop and in what the
\* call returns, one block per turn gone through whose trimmed text is not
\* empty, in the order of the turns, each block the speaker of its turn and
\* its trimmed text; a step of the loop adds at most one block at the end
\* and leaves the blocks before it as they are, two turns of one speaker in
\* a row giving two blocks.
C34_BlocksInTurnOrder ==
    /\ [](/\ Len(transcript_text) = Len(SpokenTurns)
          /\ \A j \in 1..Len(transcript_text) :
                transcript_text[j] =
                   [ speaker |-> SpeakerOf(SpokenTurns[j]),
                     text |-> strip(SpokenTurns[j].text[1]) ]
          /\ (parsed # None /\ transcript_data # <<>>)
                => parsed[1].text = transcript_text)
    /\ [][ /\ Len(transcript_text') \in
                { Len(transcript_text), Len(transcript_text) + 1 }
           /\ SubSeq(transcript_text', 1, Len(transcript_text))
                = transcript_text ]_vars

\* Two microphone turns in a row: two blocks, in the order of the turns.
C34_Witness ==
    /\ parsed # None
    /\ participants = <<"Me", "Alice">>
    /\ transcript_data = << Turn("microphone", <<"h", "e", "l", "l", "o">>),
                            Turn("microphone", <<"h", "i">>) >>
    /\ parsed[1].text =
          << [ speaker |-> "Me", text |-> <<"h", "e", "l", "l", "o">> ],
             [ speaker |-> "Me", text |-> <<"h", "i">> ] >>

----------------------------------------------------------------------------
(* Properties of documents that change during a pass, checked under Spec *)

\* The documents of the listing as they were when the fetch of the pass
\* ended.
ListedAtFetch ==
    { hist.listedAtFetch[k] : k \in 1..Len(hist.listedAtFetch) }

\* C35: when a pass has ended in success, every document the service lists
\* that was created or updated after the fetch of the pass ended is dated at
\* or after the watermark the pass wrote, so that a later pass takes it.
C35_ChangedDuringPassStaysDue ==
    (pc = "done" /\ PassSucceeded)
    => \A i \in 1..Len(remoteDocs) :
          remoteDocs[i] \notin ListedAtFetch
          => IsDue(remoteDocs[i], watermarkFile[1])

----------------------------------------------------------------------------
(* Properties of a failed lists request, checked under SpecMap *)

\* The step is an _initialize_sync, a mapping in the mapping file, whose
\* lists request failed under the continue mapping policy.
ListsFailedAndContinued ==
    /\ pc = "init"
    /\ mapFile.state = "valid"
    /\ hist'.listsIn = "fail"
    /\ config.continue_on_mapping_error

\* C36: when the lists request of a rebuild fails under the continue mapping
\* policy, the mapping file is left as it was, and every document it mapped
\* still resolves to its list in the pass.
C36_FailedRebuildKeepsMapping ==
    [][ ListsFailedAndContinued =>
          /\ mapFile'.state = "valid"
          /\ mapFile'.content = mapFile.content
          /\ \A d \in DOMAIN mapFile.content :
                list_info(docMapping', d) = list_info(mapFile.content, d)
      ]_vars

----------------------------------------------------------------------------
(* Properties of the notes of one pass, checked under SpecProc *)

\* The documents handed to processing in this pass that have a note of
\* their own in the vault.
HandedWithNote == { id \in hist.handed : NotesOf(id) # {} }

\* C37: when the processing of a pass is over, each document the pass
\* counted as processed has a note file of its own in the vault, holding
\* its note: the notes of two documents of the pass are two files.
C37_OneNotePerDocument ==
    (pc \in {"write", "done"} /\ ~config.dry_run)
    => Cardinality(HandedWithNote) >= stats.documents_processed

----------------------------------------------------------------------------
(* Properties of the statistics of a pass, checked under SpecProc *)

\* A percentage, held as a fraction, lies between 0% and 100%.
IsPercentage(rate) ==
    /\ rate # None
    /\ rate[1].den > 0
    /\ rate[1].num >= 0
    /\ rate[1].num <= 100 * rate[1].den

\* C38: in every state of a pass documents_failed is at most the number of
\* documents handed to processing so far, and the success rate lies between
\* 0% and 100%.
C38_StatsWithinRange ==
    /\ stats.documents_failed <= Cardinality(hist.handed)
    /\ IsPercentage(success_rate(stats))

----------------------------------------------------------------------------
(* Properties of a dry run, checked under SpecDry *)

\* C39: with dry_run set, a pass that previews documents changes neither
\* the vault nor the watermark file, so that the documents it previewed are
\* still due in the pass after it.
C39_DryRunChangesNothing ==
    [][ (config.dry_run /\ hist.handed # {})
          => (vault' = vault /\ watermarkFile' = watermarkFile) ]_vars

----------------------------------------------------------------------------
(* Termination of the paging, checked under SpecFetchLive *)

\* The page at the current offset is empty, or the filter keeps no document
\* of it.
LastPage ==
    \/ RemotePage(config.batch_size, offset) = <<>>
    \/ filter_page(RemotePage(config.batch_size, offset), lastSync) = <<>>

\* The requests of the paging are made at offsets 0, batch_size,
\* 2 * batch_size, ...: the offset of the k-th request is (k - 1) * batch_size,
\* and a request followed by another one moves the offset up.
OffsetsAscend ==
    /\ [](pc = "fetching" => offset = hist.pageRequests * config.batch_size)
    /\ [][ (pc = "fetching" /\ pc' = "fetching")
             => /\ offset' > offset
                /\ hist'.pageRequests = hist.pageRequests + 1 ]_vars

\* The paging goes on after a request exactly when the request did not fail
\* and brought a page of which the filter kept a document.
EndsAtLastPage ==
    [][ pc = "fetching"
          => /\ pc' # "fetching" => (LastPage \/ PageRequestFailed)
             /\ LastPage => pc' # "fetching" ]_vars

\* C40: over a finite listing and with batch_size >= 1 the paging of
\* fetch_documents_since terminates: its requests go to the offsets 0,
\* batch_size, 2 * batch_size, ... in ascending order, none twice, at most
\* one of them beyond the end of the listing, and the loop is left at the
\* first request that fails, brings an empty page or brings a page of which
\* no document is kept.
C40_PagingTerminates ==
    /\ OffsetsAscend
    /\ EndsAtLastPage
    /\ [](pc = "fetching" => offset < Len(remoteDocs) + config.batch_size)
    /\ (pc = "fetching") ~> (pc # "fetching")

C40_Witness ==
    /\ pc = "processing"
    /\ config.batch_size = 1
    /\ hist.pageRequests = 3
    /\ offset = 2
    /\ Len(allDocuments) = 2

====
